---- MODULE Spec2Model ----
(***************************************************************************)
(* hypersearch_DL of demo/demo_hypersearchDL.ipynb as a state machine.     *)
(*                                                                         *)
(* One call of hypersearch_DL is followed from the decoration of modelrun  *)
(* (cell line 101) through optunity.maximize (109-111) to the two prints   *)
(* (113-114) and the return (115).  The notebook's own code is the wiring: *)
(* which argument goes where, what modelrun computes from what, what is    *)
(* returned.  optunity (cross_validated, maximize), lifelines              *)
(* (concordance_index) and trainDL.DL_single_run are collaborators whose   *)
(* code is not in the notebook; they are modelled by their contracts and   *)
(* every choice they make (fold permutation, proposed candidates, trained  *)
(* weights, training failures) is nondeterministic.                        *)
(*                                                                         *)
(* Numbers.  Hyperparameter values are integers (dro and alpha in tenths). *)
(* A real score is a fraction <<num, den>> with den > 0; 10**e is the      *)
(* fraction Pow10(e).                                                      *)
(***************************************************************************)
EXTENDS Integers, Sequences, FiniteSets, TLC

VARIABLES
    x_data, y_data, method, nfolds, nevals,
    lrexp_range, l1rexp_range, dro_range, units1_range, units2_range, alpha_range,
    batch_size, num_epochs,
    pc, folds, cand, foldlog, last_fold, call_log, nruns,
    optimal_pars, searchlog, printed, result, error

inputs == <<x_data, y_data, method, nfolds, nevals,
            lrexp_range, l1rexp_range, dro_range, units1_range, units2_range,
            alpha_range, batch_size, num_epochs>>

vars == <<x_data, y_data, method, nfolds, nevals,
          lrexp_range, l1rexp_range, dro_range, units1_range, units2_range,
          alpha_range, batch_size, num_epochs,
          pc, folds, cand, foldlog, last_fold, call_log, nruns,
          optimal_pars, searchlog, printed, result, error>>

\* A value, or the exception raised instead of one.
Ok(v) == [ok |-> TRUE, val |-> v]
Err(e) == [ok |-> FALSE, err |-> e]

\* A local that is not assigned yet.
Unset == [set |-> FALSE]

----------------------------------------------------------------------------
(* Bounds of the model.                                                    *)

MaxN == 4
MaxFolds == 2
MaxEvals == 2

Status == {0, 1}
Times == {1, 2}
RiskVals == {0, 1}

----------------------------------------------------------------------------
(* Arithmetic on fractions.                                                *)

FracLeq(a, b) == a[1] * b[2] <= b[1] * a[2]
FracLess(a, b) == a[1] * b[2] < b[1] * a[2]
FracEq(a, b) == a[1] * b[2] = b[1] * a[2]
FracAdd(a, b) == <<a[1] * b[2] + b[1] * a[2], a[2] * b[2]>>

RECURSIVE FracSum(_)
FracSum(s) == IF s = <<>> THEN <<0, 1>> ELSE FracAdd(Head(s), FracSum(Tail(s)))

RECURSIVE IntPow(_, _)
IntPow(b, k) == IF k = 0 THEN 1 ELSE b * IntPow(b, k - 1)

\* 10**e for an integer exponent e
Pow10(e) == IF e >= 0 THEN <<IntPow(10, e), 1>> ELSE <<1, IntPow(10, 0 - e)>>

\* '%1.3f' % v : v rounded to thousandths
Format3(v) == (2000 * v[1] + v[2]) \div (2 * v[2])

----------------------------------------------------------------------------
(* The collaborators.                                                      *)

ParamNames == {"lrexp", "l1rexp", "dro", "units1", "units2", "alpha"}

\* The solver names optunity registers.  The notebook's list of options
\* (cell lines 126-129) is DocumentedMethods below.
SolverNames == {"grid search", "random search", "sobol", "particle swarm",
                "nelder-mead", "cma-es", "tpe"}

\* select(collection, rows): the rows of a collection, or an IndexError when
\* a row is not one of the collection's.
select(collection, rows) ==
    IF rows \subseteq DOMAIN collection
    THEN Ok([r \in rows |-> collection[r]])
    ELSE Err("IndexError")

\* The fold a row lands in when a permutation is dealt round-robin: the
\* sizes of the folds of n rows differ by at most one.
FoldSize(n, k, f) == Cardinality({i \in 1..n : ((i - 1) % k) + 1 = f})

\* generate_folds(num_rows, num_folds): a random partition of the rows.
generate_folds(n, k) ==
    { [f \in 1..k |-> {r \in 1..n : a[r] = f}] :
        a \in { b \in [1..n -> 1..k] :
                  \A f \in 1..k :
                     Cardinality({r \in 1..n : b[r] = f}) = FoldSize(n, k, f) } }

\* Harrell's concordance index as lifelines computes it: over the admissible
\* pairs (a left the study by an observed event before b, or at b's time
\* when b is censored), the share whose predicted scores are ordered like
\* their times, a tie in the scores counting one half.  No admissible pair
\* is a division by zero.
Admissible(event_times, event_observed) ==
    { p \in (DOMAIN event_times) \X (DOMAIN event_times) :
        /\ p[1] # p[2]
        /\ event_observed[p[1]] = 1
        /\ \/ event_times[p[1]] < event_times[p[2]]
           \/ /\ event_times[p[1]] = event_times[p[2]]
              /\ event_observed[p[2]] = 0 }

concordance_index(event_times, predicted_scores, event_observed) ==
    LET adm == Admissible(event_times, event_observed)
        correct == Cardinality({p \in adm :
                        predicted_scores[p[1]] < predicted_scores[p[2]]})
        tied == Cardinality({p \in adm :
                        predicted_scores[p[1]] = predicted_scores[p[2]]})
    IN  IF adm = {} THEN Err("ZeroDivisionError")
        ELSE Ok(<<2 * correct + tied, 2 * Cardinality(adm)>>)

\* The aggregator of cross_validated: the mean of the fold scores.
mean(scores) == LET s == FracSum(scores) IN <<s[1], s[2] * Len(scores)>>

\* The box a solver samples: every assignment of a value between the bounds
\* of its name to each name.
RECURSIVE BoxOver(_, _)
BoxOver(kwargs, names) ==
    IF names = {} THEN {<<>>}
    ELSE LET n == CHOOSE m \in names : TRUE
         IN  { (n :> v) @@ p : v \in kwargs[n][1] .. kwargs[n][2],
                               p \in BoxOver(kwargs, names \ {n}) }

Box(kwargs) == BoxOver(kwargs, DOMAIN kwargs)

BoxWellFormed(kwargs) ==
    \A n \in DOMAIN kwargs : Len(kwargs[n]) = 2 /\ kwargs[n][1] <= kwargs[n][2]

\* Points per dimension of a grid of at most n points in dim dimensions.
GridDensity(n, dim) ==
    CHOOSE d \in 1..n : IntPow(d, dim) <= n /\ IntPow(d + 1, dim) > n

\* How many candidates a solver evaluates within a budget of num_evals.
NumCandidates(solver_name, num_evals, dim) ==
    IF solver_name = "grid search"
    THEN IntPow(GridDensity(num_evals, dim), dim)
    ELSE num_evals

Scores(log) == [i \in 1..Len(log) |-> log[i].score]

----------------------------------------------------------------------------
(* The notebook's code: what hypersearch_DL hands to whom.                 *)

\* The search techniques the notebook lists for the argument method.
DocumentedMethods == {"grid search", "random", "sobol", "particle swarm"}

\* @optunity.cross_validated(x=x_data, y=y_data, num_folds=nfolds)
cross_validated_args == [x |-> x_data, y |-> y_data, num_folds |-> nfolds]

\* (mutant) the ranges of the two layer widths handed over crosswise
maximize_kwargs_crossed ==
    [lrexp |-> lrexp_range, l1rexp |-> l1rexp_range, dro |-> dro_range,
     units1 |-> units2_range, units2 |-> units1_range, alpha |-> alpha_range]

\* The box constraints of optunity.maximize: one range per hyperparameter.
maximize_kwargs ==
    [lrexp |-> lrexp_range, l1rexp |-> l1rexp_range, dro |-> dro_range,
     units1 |-> units1_range, units2 |-> units2_range, alpha |-> alpha_range]

\* (mutant) the fold count handed over as the budget
maximize_num_evals_folds == nfolds

maximize_num_evals == nevals

maximize_solver_name == method

\* (mutant) optunity.minimize called instead
minimize_pick(log) ==
    { i \in 1..Len(log) :
        \A j \in 1..Len(log) : FracLeq(log[i].score, log[j].score) }

\* hypersearch_DL calls optunity.maximize: the entries of the call log whose
\* value no other entry exceeds.
maximize_pick(log) ==
    { i \in 1..Len(log) :
        \A j \in 1..Len(log) : FracLeq(log[j].score, log[i].score) }

\* (mutant) the model fitted on the held-out rows
DL_single_run_args_heldout(x_train, y_train, x_test, y_test, pars) ==
    [xtr |-> x_test, ytr |-> y_test,
     units1 |-> pars.units1, units2 |-> pars.units2, dro |-> pars.dro,
     lr |-> Pow10(pars.lrexp), l1r |-> Pow10(pars.l1rexp),
     alpha |-> pars.alpha, batchsize |-> batch_size, numepochs |-> num_epochs]

\* The arguments modelrun gives DL_single_run.
DL_single_run_args(x_train, y_train, x_test, y_test, pars) ==
    [xtr |-> x_train, ytr |-> y_train,
     units1 |-> pars.units1, units2 |-> pars.units2, dro |-> pars.dro,
     lr |-> Pow10(pars.lrexp), l1r |-> Pow10(pars.l1rexp),
     alpha |-> pars.alpha, batchsize |-> batch_size, numepochs |-> num_epochs]

\* What modelrun has the trained model predict.
predict_input(x_train, x_test) == x_test

\* -cv_preds
Negated(cv_preds) == [r \in DOMAIN cv_preds |-> 0 - cv_preds[r]]

\* y[:,0] (censoring status) and y[:,1] (survival time)
Column0(y) == [r \in DOMAIN y |-> y[r][1]]
Column1(y) == [r \in DOMAIN y |-> y[r][2]]

\* (mutant) the predictions scored without the sign change
modelrun_score_raw(y_test, cv_preds) ==
    IF DOMAIN cv_preds # DOMAIN y_test THEN Err("ValueError")
    ELSE concordance_index(Column1(y_test), cv_preds, Column0(y_test))

\* cv_C = concordance_index(y_test[:,1], -cv_preds, y_test[:,0])
modelrun_score(y_test, cv_preds) ==
    IF DOMAIN cv_preds # DOMAIN y_test THEN Err("ValueError")
    ELSE concordance_index(Column1(y_test), Negated(cv_preds), Column0(y_test))

\* (mutant) the concordance returned as a percentage
modelrun_return_percent(cv_C) == <<100 * cv_C[1], cv_C[2]>>

\* return cv_C
modelrun_return(cv_C) == cv_C

\* (mutant) the triple of optunity.maximize returned as it is
hypersearch_return_triple(pars, log, suggestion) == <<pars, log, suggestion>>

\* return optimal_pars, searchlog
hypersearch_return(pars, log, suggestion) == <<pars, log>>

\* (mutant) the exception caught and the failed step left to be tried again
RaiseCaught(e) ==
    /\ error' = e
    /\ UNCHANGED <<pc, folds, cand, foldlog, last_fold, call_log, optimal_pars,
                   searchlog, printed, result>>

\* hypersearch_DL and modelrun catch nothing: an exception raised by a
\* collaborator ends the call with that exception.
Raise(e) ==
    /\ pc' = "raised"
    /\ error' = e
    /\ UNCHANGED <<folds, cand, foldlog, last_fold, call_log, optimal_pars,
                   searchlog, printed, result>>

----------------------------------------------------------------------------
(* The steps of one call.                                                  *)

\* modelrun, decorated: the folds are dealt once, when the function is
\* defined.
Decorate ==
    /\ pc = "def"
    /\ LET cv == cross_validated_args
       IN  folds' \in generate_folds(Len(cv.x), cv.num_folds)
    /\ pc' = "maximize"
    /\ UNCHANGED <<inputs, cand, foldlog, last_fold, call_log, nruns,
                   optimal_pars, searchlog, printed, result, error>>

\* optunity.maximize starts: the box constraints are checked, then the
\* solver is looked up by its name.
MaximizeStart ==
    /\ pc = "maximize"
    /\ IF ~BoxWellFormed(maximize_kwargs) THEN Raise("AssertionError")
       ELSE IF maximize_solver_name \notin SolverNames THEN Raise("KeyError")
       ELSE /\ pc' = "search"
            /\ UNCHANGED <<folds, cand, foldlog, last_fold, call_log,
                           optimal_pars, searchlog, printed, result, error>>
    /\ UNCHANGED <<inputs, nruns>>

\* The solver proposes the next candidate of its budget.
Suggest ==
    /\ pc = "search"
    /\ Len(call_log) < NumCandidates(maximize_solver_name, maximize_num_evals,
                                     Cardinality(DOMAIN maximize_kwargs))
    /\ cand' \in Box(maximize_kwargs)
    /\ foldlog' = <<>>
    /\ pc' = "cv"
    /\ UNCHANGED <<inputs, folds, last_fold, call_log, nruns, optimal_pars,
                   searchlog, printed, result, error>>

\* modelrun: one fit, one prediction on what is held out, one score.
modelrun(x_train, y_train, x_test, y_test, pars) ==
    LET run == DL_single_run_args(x_train, y_train, x_test, y_test, pars)
        shown == predict_input(x_train, x_test)
    IN  /\ nruns' = nruns + 1
        /\ \/ Raise("TrainError")
           \/ \E cv_preds \in [DOMAIN shown -> RiskVals] :
                LET cv_C == modelrun_score(y_test, cv_preds)
                IN  IF ~cv_C.ok THEN Raise(cv_C.err)
                    ELSE /\ foldlog' = Append(foldlog,
                                [run |-> run, predicted |-> DOMAIN shown,
                                 scored |-> DOMAIN y_test,
                                 score |-> modelrun_return(cv_C.val)])
                         /\ last_fold' = [set |-> TRUE, y_test |-> y_test,
                                          cv_preds |-> cv_preds]
                         /\ UNCHANGED <<pc, folds, cand, call_log, optimal_pars,
                                        searchlog, printed, result, error>>

\* The cross-validation wrapper calls modelrun on the next fold: the fold is
\* held out, the other folds are the training rows.
Fold ==
    /\ pc = "cv"
    /\ Len(foldlog) < Len(folds)
    /\ LET cv == cross_validated_args
           fold == Len(foldlog) + 1
           rows_test == folds[fold]
           rows_train == UNION {folds[i] : i \in (DOMAIN folds) \ {fold}}
           x_train == select(cv.x, rows_train)
           x_test == select(cv.x, rows_test)
           y_train == select(cv.y, rows_train)
           y_test == select(cv.y, rows_test)
       IN  IF ~(x_train.ok /\ x_test.ok /\ y_train.ok /\ y_test.ok)
           THEN Raise("IndexError") /\ nruns' = nruns
           ELSE modelrun(x_train.val, y_train.val, x_test.val, y_test.val, cand)
    /\ UNCHANGED inputs

\* Every fold is scored: the candidate's value is the mean, and it is logged.
Aggregate ==
    /\ pc = "cv"
    /\ Len(foldlog) = Len(folds)
    /\ call_log' = Append(call_log,
                          [pars |-> cand, score |-> mean(Scores(foldlog))])
    /\ cand' = Unset
    /\ foldlog' = <<>>
    /\ last_fold' = Unset
    /\ pc' = "search"
    /\ UNCHANGED <<inputs, folds, nruns, optimal_pars, searchlog, printed,
                   result, error>>

\* The budget is spent: optimal_pars, searchlog, _ = optunity.maximize(...)
Finish ==
    /\ pc = "search"
    /\ Len(call_log) = NumCandidates(maximize_solver_name, maximize_num_evals,
                                     Cardinality(DOMAIN maximize_kwargs))
    /\ \E i \in maximize_pick(call_log) :
         /\ optimal_pars' = call_log[i].pars
         /\ searchlog' = [optimum |-> call_log[i].score, call_log |-> call_log,
                          stats |-> [num_evals |-> Len(call_log)]]
    /\ pc' = "print1"
    /\ UNCHANGED <<inputs, folds, cand, foldlog, last_fold, call_log, nruns,
                   printed, result, error>>

\* print('Optimal hyperparameters : ' + str(optimal_pars))
Print1 ==
    /\ pc = "print1"
    /\ printed' = Append(printed, [text |-> "Optimal hyperparameters : ",
                                   value |-> optimal_pars])
    /\ pc' = "print2"
    /\ UNCHANGED <<inputs, folds, cand, foldlog, last_fold, call_log, nruns,
                   optimal_pars,
                   searchlog, result, error>>

\* print('Cross-validated C after tuning: %1.3f' % searchlog.optimum)
Print2 ==
    /\ pc = "print2"
    /\ printed' = Append(printed, [text |-> "Cross-validated C after tuning: ",
                                   value |-> Format3(searchlog.optimum)])
    /\ pc' = "return"
    /\ UNCHANGED <<inputs, folds, cand, foldlog, last_fold, call_log, nruns,
                   optimal_pars,
                   searchlog, result, error>>

\* return optimal_pars, searchlog
Return ==
    /\ pc = "return"
    /\ result' = [set |-> TRUE,
                  val |-> hypersearch_return(optimal_pars, searchlog,
                                             maximize_solver_name)]
    /\ pc' = "returned"
    /\ UNCHANGED <<inputs, folds, cand, foldlog, last_fold, call_log, nruns,
                   optimal_pars,
                   searchlog, printed, error>>

Next ==
    \/ Decorate
    \/ MaximizeStart
    \/ Suggest
    \/ Fold
    \/ Aggregate
    \/ Finish
    \/ Print1
    \/ Print2
    \/ Return

----------------------------------------------------------------------------
(* The calls that are explored.                                            *)

\* The lower bounds of the notebook's own call (dro and alpha in tenths).
BaseLow == [lrexp |-> 0 - 6, l1rexp |-> 0 - 7, dro |-> 1,
            units1 |-> 75, units2 |-> 5, alpha |-> 3]

\* Well-formed boxes: every range starts at its base, and the ranges of the
\* names in wide are one unit long, the others degenerate (low = high).
WideBox(wide) ==
    [n \in ParamNames |->
        <<BaseLow[n], BaseLow[n] + (IF n \in wide THEN 1 ELSE 0)>>]

\* The degenerate box, and three boxes with one range that is not.
WellFormedBoxes ==
    {WideBox({})} \cup { WideBox({n}) : n \in {"lrexp", "units2", "alpha"} }

\* Malformed boxes: a range that runs backwards, a range of one element.
MalformedBoxes ==
    { [WideBox({}) EXCEPT ![n] = <<BaseLow[n] + 1, BaseLow[n]>>] :
          n \in {"dro"} }
    \cup { [WideBox({}) EXCEPT ![n] = <<BaseLow[n]>>] : n \in {"alpha"} }

\* Outcome data: one <<censoring status, survival time>> per sample.
Outcomes(n) == [1..n -> Status \X Times]

\* Three outcome arrays of n samples: every event observed, every other
\* sample censored, every sample censored.
SomeOutcomes(n) ==
    { [i \in 1..n |-> <<1, ((i - 1) % 2) + 1>>],
      [i \in 1..n |-> <<i % 2, (((i - 1) \div 2) % 2) + 1>>],
      [i \in 1..n |-> <<0, 1>>] }

Features(n) == [i \in 1..n |-> i]

InitLocals ==
    /\ pc = "def"
    /\ folds = <<>>
    /\ cand = Unset
    /\ foldlog = <<>>
    /\ last_fold = Unset
    /\ call_log = <<>>
    /\ nruns = 0
    /\ optimal_pars = Unset
    /\ searchlog = Unset
    /\ printed = <<>>
    /\ result = Unset
    /\ error = "None"

SetBox(box) ==
    /\ lrexp_range = box.lrexp
    /\ l1rexp_range = box.l1rexp
    /\ dro_range = box.dro
    /\ units1_range = box.units1
    /\ units2_range = box.units2
    /\ alpha_range = box.alpha

\* Calls on three data sets of four samples, over every documented method,
\* box, budget and fold count.
InitSearch ==
    /\ x_data = Features(4)
    /\ y_data \in SomeOutcomes(4)
    /\ method \in DocumentedMethods
    /\ nfolds \in 1..MaxFolds
    /\ nevals \in 1..MaxEvals
    /\ \E box \in WellFormedBoxes \cup MalformedBoxes : SetBox(box)
    /\ \E b \in {<<16, 100>>, <<8, 50>>} : batch_size = b[1] /\ num_epochs = b[2]
    /\ InitLocals

\* Calls on every data set of up to MaxN samples, the outcome array as long
\* as the feature array or one sample longer or shorter, with one candidate.
InitData ==
    /\ \E n \in 2..MaxN, m \in 2..MaxN :
         /\ m \in {n - 1, n, n + 1}
         /\ x_data = Features(n)
         /\ y_data \in Outcomes(m)
    /\ method = "random search"
    /\ nfolds \in 1..MaxFolds
    /\ nevals = 1
    /\ SetBox(WideBox({}))
    /\ batch_size = 16
    /\ num_epochs = 100
    /\ InitLocals

Init == InitSearch \/ InitData

Spec == Init /\ [][Next]_vars

----------------------------------------------------------------------------
(* The claims.                                                             *)

\* The range the caller supplied for a hyperparameter.
SuppliedRange(n) ==
    CASE n = "lrexp" -> lrexp_range
      [] n = "l1rexp" -> l1rexp_range
      [] n = "dro" -> dro_range
      [] n = "units1" -> units1_range
      [] n = "units2" -> units2_range
      [] n = "alpha" -> alpha_range

Returned == pc = "returned"
ReturnedPars == result.val[1]
ReturnedLog == result.val[2]

\* C1: when hypersearch_DL returns, each of the six returned values lies in
\* the closed interval [low, high] the caller supplied for that
\* hyperparameter.
C1_WithinBounds ==
    Returned =>
        \A n \in ParamNames :
            /\ n \in DOMAIN ReturnedPars
            /\ SuppliedRange(n)[1] <= ReturnedPars[n]
            /\ ReturnedPars[n] <= SuppliedRange(n)[2]

\* C1 witness: a call with a range that is not degenerate has returned, and
\* the value returned for it is the upper bound.
C1_Witness ==
    /\ Returned
    /\ units2_range[1] < units2_range[2]
    /\ ReturnedPars.units2 = units2_range[2]

\* C2: when hypersearch_DL returns, optimal_pars is a set that was
\* evaluated, searchlog.optimum is the average score of that evaluation, and
\* no evaluated set has a strictly higher average score.
C2_Argmax ==
    Returned =>
        /\ \E i \in 1..Len(call_log) :
              /\ call_log[i].pars = ReturnedPars
              /\ FracEq(call_log[i].score, ReturnedLog.optimum)
        /\ \A j \in 1..Len(call_log) :
              ~FracLess(ReturnedLog.optimum, call_log[j].score)

\* C2 witness: two sets were evaluated, the first scored strictly higher
\* than the second, and the first was returned.
C2_Witness ==
    /\ Returned
    /\ Len(call_log) = 2
    /\ FracLess(call_log[2].score, call_log[1].score)
    /\ call_log[1].pars # call_log[2].pars
    /\ ReturnedPars = call_log[1].pars

\* An observed event of one sample before, or at, the end of another's
\* follow-up: the pair is comparable.
HasComparablePair(y) == Admissible(Column1(y), Column0(y)) # {}

\* C3: when the outcome data holds a comparable pair, the optimum that
\* hypersearch_DL returns lies in the closed interval [0, 1].
C3_OptimumInUnitInterval ==
    (Returned /\ HasComparablePair(y_data)) =>
        /\ ReturnedLog.optimum[2] > 0
        /\ FracLeq(<<0, 1>>, ReturnedLog.optimum)
        /\ FracLeq(ReturnedLog.optimum, <<1, 1>>)

\* C3 witness: an optimum strictly between 0 and 1 was returned from a
\* search of two folds.
C3_Witness ==
    /\ Returned
    /\ nfolds = 2
    /\ HasComparablePair(y_data)
    /\ FracLess(<<0, 1>>, ReturnedLog.optimum)
    /\ FracLess(ReturnedLog.optimum, <<1, 1>>)

\* C4: with feature and outcome arrays of different sample counts the call
\* ends in an error: nothing is returned, and no fold is fitted and scored
\* on the arrays cut to the shorter length.
C4_MismatchRaises ==
    (Len(x_data) # Len(y_data)) => (~Returned /\ foldlog = <<>>)

\* The scenario of C5: two folds, one evaluation, method 'random', every
\* range degenerate, outcome data as long as the feature data.
C5_Scenario ==
    /\ method = "random"
    /\ nfolds = 2
    /\ nevals = 1
    /\ Len(x_data) = Len(y_data)
    /\ \A n \in ParamNames :
          Len(SuppliedRange(n)) = 2 /\ SuppliedRange(n)[1] = SuppliedRange(n)[2]

\* C5: in that scenario the call ends by returning, for every
\* hyperparameter, the one value of its range, with a finite score.
C5_DegenerateReturned ==
    (C5_Scenario /\ pc \in {"returned", "raised"}) =>
        /\ Returned
        /\ \A n \in ParamNames : ReturnedPars[n] = SuppliedRange(n)[1]
        /\ ReturnedLog.optimum[2] > 0

\* The exceptions the collaborators raise.
CollaboratorErrors ==
    {"AssertionError", "KeyError", "IndexError", "TrainError",
     "ZeroDivisionError", "ValueError"}

SuppliedBox == [n \in ParamNames |-> SuppliedRange(n)]

\* C6: a failure inside the search leaves hypersearch_DL as the exception
\* that was raised: a malformed range or an unknown method fails before any
\* candidate is evaluated, and once a failure is raised nothing is printed
\* or returned and no candidate or fold is evaluated again or further.
C6_Failed ==
    /\ (error # "None") <=> (pc = "raised")
    /\ (error # "None") =>
          /\ error \in CollaboratorErrors
          /\ printed = <<>>
          /\ ~result.set
    /\ (~BoxWellFormed(SuppliedBox) \/ method \notin SolverNames) =>
          /\ pc \in {"def", "maximize", "raised"}
          /\ nruns = 0
          /\ call_log = <<>>

C6_Halts ==
    (error # "None") =>
        UNCHANGED <<pc, error, nruns, cand, foldlog, call_log, printed, result>>

C6_FailurePropagates == []C6_Failed /\ [][C6_Halts]_vars

\* C6 witness: the fit of the second fold of the second candidate failed:
\* the first candidate's score is logged and nothing was returned.
C6_Witness ==
    /\ pc = "raised"
    /\ error = "TrainError"
    /\ Len(call_log) = 1
    /\ Len(foldlog) = 1
    /\ nruns = 4

\* C7: whatever the budget and the fold count, the result is a pair of a
\* mapping of exactly the six hyperparameter names to one value each and a
\* search log with a scalar optimum.
C7_ResultShape ==
    Returned =>
        /\ Len(result.val) = 2
        /\ DOMAIN ReturnedPars = ParamNames
        /\ \A n \in ParamNames : ReturnedPars[n] \in Int
        /\ "optimum" \in DOMAIN ReturnedLog
        /\ Len(ReturnedLog.optimum) = 2
        /\ ReturnedLog.optimum[1] \in Int
        /\ ReturnedLog.optimum[2] \in Nat \ {0}

\* C7 witness: a search of one evaluation and two folds has returned.
C7_Witness == Returned /\ nevals = 1 /\ nfolds = 2 /\ Len(call_log) = 1

AllRows == 1..Len(x_data)

\* C8 (per fold): the model of fold i is fitted on the samples outside fold
\* i, with their own outcomes, and asked to predict and scored on the
\* samples of fold i; the folds are disjoint and every sample is in one.
C8_Folds ==
    /\ \A i \in 1..Len(foldlog) :
          LET e == foldlog[i]
          IN  /\ DOMAIN e.run.xtr = AllRows \ folds[i]
              /\ DOMAIN e.run.ytr = AllRows \ folds[i]
              /\ \A r \in DOMAIN e.run.xtr :
                    e.run.xtr[r] = x_data[r] /\ e.run.ytr[r] = y_data[r]
              /\ e.predicted = folds[i]
              /\ e.scored = folds[i]
              /\ (DOMAIN e.run.xtr) \cap e.scored = {}
    /\ (pc # "def") =>
          /\ Len(folds) = nfolds
          /\ \A r \in AllRows :
                Cardinality({f \in 1..nfolds : r \in folds[f]}) = 1
          /\ \A f \in 1..nfolds : folds[f] \subseteq AllRows

\* C8 (per candidate): the value logged for a candidate is the average of
\* the scores of exactly nfolds folds.
C8_Average ==
    (Len(call_log') = Len(call_log) + 1) =>
        /\ Len(foldlog) = nfolds
        /\ call_log'[Len(call_log')].pars = cand
        /\ LET v == call_log'[Len(call_log')].score
           IN  FracEq(<<v[1] * nfolds, v[2]>>, FracSum(Scores(foldlog)))

\* C8: every candidate is scored as the average of exactly nfolds fold
\* scores; each fold's model is fitted on the training samples only and
\* scored on the held-out samples only, the two are disjoint, and over the
\* folds of a candidate every sample is held out exactly once.
C8_CrossValidated == []C8_Folds /\ [][C8_Average]_vars

\* C8 witness: both folds of a second candidate are scored.
C8_Witness ==
    /\ pc = "cv"
    /\ nfolds = 2
    /\ Len(call_log) = 1
    /\ Len(foldlog) = 2

Observed(y) == \A r \in DOMAIN y : y[r][1] = 1
TwoTimes(y) == \E a, b \in DOMAIN y : y[a][2] < y[b][2]
\* the raw risk is strictly higher (lower) for the shorter survival time
RiskFallsWithTime(y, p) ==
    \A a, b \in DOMAIN y : (y[a][2] < y[b][2]) => (p[a] > p[b])
RiskRisesWithTime(y, p) ==
    \A a, b \in DOMAIN y : (y[a][2] < y[b][2]) => (p[a] < p[b])

LastScore == foldlog[Len(foldlog)].score

\* C9: the score of a fold is the concordance of the held-out times, the
\* negated predictions and the held-out event indicators; on a fold whose
\* events are all observed it is 1 when the raw prediction is strictly
\* higher for every sample of strictly shorter survival, and 0 when it is
\* strictly lower for every such sample.
C9_RiskConvention ==
    last_fold.set =>
        LET y == last_fold.y_test
            p == last_fold.cv_preds
        IN  /\ LastScore =
                 concordance_index(Column1(y), Negated(p), Column0(y)).val
            /\ (Observed(y) /\ TwoTimes(y) /\ RiskFallsWithTime(y, p))
                  => FracEq(LastScore, <<1, 1>>)
            /\ (Observed(y) /\ TwoTimes(y) /\ RiskRisesWithTime(y, p))
                  => FracEq(LastScore, <<0, 1>>)

\* C9 witness: a fold of three observed events at two different times,
\* higher risk predicted for the shorter survival, scored 1.
C9_Witness ==
    /\ last_fold.set
    /\ Cardinality(DOMAIN last_fold.y_test) >= 3
    /\ Observed(last_fold.y_test)
    /\ TwoTimes(last_fold.y_test)
    /\ RiskFallsWithTime(last_fold.y_test, last_fold.cv_preds)
    /\ FracEq(LastScore, <<1, 1>>)

\* C10: at most nevals candidates are evaluated, DL_single_run is called at
\* most nevals * nfolds times, and each call is given the batch_size and
\* num_epochs of the caller.
C10_Budget ==
    /\ Len(call_log) + (IF pc = "cv" THEN 1 ELSE 0) <= nevals
    /\ nruns <= nevals * nfolds
    /\ \A i \in 1..Len(foldlog) :
          /\ foldlog[i].run.batchsize = batch_size
          /\ foldlog[i].run.numepochs = num_epochs

\* C10 witness: the whole budget was spent: nevals candidates of nfolds
\* folds each, and the call returned.
C10_Witness ==
    /\ Returned
    /\ nevals = 2
    /\ nfolds = 2
    /\ Len(call_log) = nevals
    /\ nruns = nevals * nfolds

====
